---------------------------- MODULE Spec2Model ----------------------------
(***************************************************************************)
(* Model of the zacks-raycast extension: the recents store kept in        *)
(* LocalStorage under RECENTS_KEY (addToRecents, removeRecent,            *)
(* clearRecents, the RecentStocks reader), the lookups that feed it       *)
(* (StockDetail, QuickLookup), the search view (SearchZacksRank) and the  *)
(* two network clients (searchTickers, getZacksData).                     *)
(*                                                                         *)
(* Every asynchronous function is cut at its awaits: one action per       *)
(* resumption, so that the storage reads and writes of concurrent calls   *)
(* interleave exactly where the JavaScript event loop lets them.          *)
(***************************************************************************)
EXTENDS Integers, Sequences, FiniteSets, TLC

\* ---------------------------------------------------------------- constants

\* src/src/zacks-rank.tsx:8 and src/src/quick-lookup.tsx:7
MAX_RECENTS == 10

\* Number of operations (lookups, removals, clears, view runs) of a behaviour
\* of Spec; operation p is the p-th one invoked.
NProcs == 2

\* Number of upserts of a behaviour of SpecSeq.
MaxSeq == 12

\* Longest quotes array of a search response in SpecNet.
MaxQuotes == 2

\* Number of search text changes of a behaviour of SpecSearch.
MaxEdits == 3

\* Longest stored list a behaviour of SpecView starts from.
MaxView == 3

\* ------------------------------------------------------------------ strings

\* Ticker symbols are the strings T1, T2, ...; t1, t2, ... are their
\* lower-case spellings and " t1 ", ... the same with surrounding blanks.
NTickers == MaxSeq + 1
TickerIds == 1..NTickers
Sym(i) == "T" \o ToString(i)
Lower(i) == "t" \o ToString(i)
Padded(i) == " t" \o ToString(i) \o " "
PaddedUpper(i) == " T" \o ToString(i) \o " "

Lowers == {Lower(i) : i \in TickerIds}
Paddeds == {Padded(i) : i \in TickerIds}
PaddedUppers == {PaddedUpper(i) : i \in TickerIds}

\* String.prototype.toUpperCase on the strings above.
UpperTable ==
  [s \in Lowers \cup Paddeds |->
     IF s \in Lowers THEN Sym(CHOOSE i \in TickerIds : s = Lower(i))
     ELSE PaddedUpper(CHOOSE i \in TickerIds : s = Padded(i))]

toUpperCase(s) == IF s \in DOMAIN UpperTable THEN UpperTable[s] ELSE s

\* String.prototype.trim on the strings above.
TrimTable ==
  [s \in Paddeds \cup PaddedUppers |->
     IF s \in Paddeds THEN Lower(CHOOSE i \in TickerIds : s = Padded(i))
     ELSE Sym(CHOOSE i \in TickerIds : s = PaddedUpper(i))]

trim(s) == IF s \in DOMAIN TrimTable THEN TrimTable[s] ELSE s

\* ------------------------------------------------------------ stored values

\* The value LocalStorage holds under RECENTS_KEY: nothing (getItem yields
\* undefined), a string JSON.parse rejects, or the JSON text of a list.  A
\* JSON text is represented by the value it denotes.
Absent == [kind |-> "absent", list |-> <<>>]
Garbage == [kind |-> "garbage", list |-> <<>>]

\* JSON.stringify of a RecentTicker[].
JSONstringify(l) == [kind |-> "json", list |-> l]

\* `stored ? JSON.parse(stored) : []`: the outcome is a list or a thrown
\* SyntaxError.
ParseStored(s) ==
  IF s.kind = "absent" THEN [threw |-> FALSE, list |-> <<>>]
  ELSE IF s.kind = "json" THEN [threw |-> FALSE, list |-> s.list]
  ELSE [threw |-> TRUE, list |-> <<>>]

RecentTicker(symbol, name, timestamp) ==
  [symbol |-> symbol, name |-> name, timestamp |-> timestamp]

\* recents.filter((r) => r.symbol !== symbol)
FilterOut(recents, symbol) == SelectSeq(recents, LAMBDA r : r.symbol # symbol)

\* Array.prototype.slice(0, n)
Slice0(l, n) == SubSeq(l, 1, IF Len(l) < n THEN Len(l) ELSE n)

\* addToRecents without `.slice(0, MAX_RECENTS)`.
addToRecentsNoSlice(recents, symbol, name, timestamp) ==
  <<RecentTicker(symbol, name, timestamp)>> \o FilterOut(recents, symbol)

\* addToRecents without the filter that removes the existing entry.
addToRecentsNoFilter(recents, symbol, name, timestamp) ==
  Slice0(<<RecentTicker(symbol, name, timestamp)>> \o recents, MAX_RECENTS)

\* addToRecents with push in place of unshift.
addToRecentsPush(recents, symbol, name, timestamp) ==
  Slice0(FilterOut(recents, symbol) \o <<RecentTicker(symbol, name, timestamp)>>,
         MAX_RECENTS)

\* addToRecents keeping the last MAX_RECENTS entries (slice(-MAX_RECENTS)).
addToRecentsSliceTail(recents, symbol, name, timestamp) ==
  LET l == <<RecentTicker(symbol, name, timestamp)>> \o FilterOut(recents, symbol)
  IN  SubSeq(l, IF Len(l) > MAX_RECENTS THEN Len(l) - MAX_RECENTS + 1 ELSE 1, Len(l))

\* The list addToRecents writes, from the list it read.
addToRecentsList(recents, symbol, name, timestamp) ==
  Slice0(<<RecentTicker(symbol, name, timestamp)>> \o FilterOut(recents, symbol),
         MAX_RECENTS)

\* removeRecent with the filter's test inverted (=== for !==).
removeRecentInverted(current, symbol) ==
  SelectSeq(current, LAMBDA r : r.symbol = symbol)

\* The list removeRecent writes, from the list it read.
removeRecentList(current, symbol) == FilterOut(current, symbol)


\* ---------------------------------------------------------- network clients

\* What one HTTP request comes to: fetch rejects (kind "neterr"), or it
\* yields a response with a status (ok: 2xx or not) whose body response.json()
\* decodes (decodes) to data, or rejects.
HttpResponse(kind, ok, decodes, data) ==
  [kind |-> kind, ok |-> ok, decodes |-> decodes, data |-> data]

\* A completion of an async function: a returned value or a thrown error (the
\* value of a throw is a placeholder of the result's type).
Return(v) == [threw |-> FALSE, value |-> v]
Throw(v) == [threw |-> TRUE, value |-> v]

\* ZacksQuoteData | null.  Of a quote record only the fields the modelled
\* code reads are kept.
NullQuote == [isNull |-> TRUE, ticker |-> "", name |-> ""]
Quote(ticker, name) == [isNull |-> FALSE, ticker |-> ticker, name |-> name]

\* The decoded body of a quote response: JSON null, or an object from ticker
\* keys to quote records (or to null).
ZacksNullBody == [isObject |-> FALSE, entries |-> <<>>]
ZacksBody(entries) == [isObject |-> TRUE, entries |-> entries]

\* The try block of getZacksData.
getZacksDataTry(ticker, resp) ==
  IF resp.kind = "neterr" THEN Throw(NullQuote)
  ELSE IF ~resp.ok THEN Throw(NullQuote)
  ELSE IF ~resp.decodes THEN Throw(NullQuote)
  ELSE IF ~resp.data.isObject THEN Throw(NullQuote)
  ELSE LET key == toUpperCase(ticker)
           tickerData == IF key \in DOMAIN resp.data.entries
                         THEN resp.data.entries[key] ELSE NullQuote
       IN  Return(IF tickerData.isNull THEN NullQuote ELSE tickerData)

\* getZacksData: try { ... } catch { return null }
getZacksData(ticker, resp) ==
  LET c == getZacksDataTry(ticker, resp)
  IN  IF c.threw THEN Return(NullQuote) ELSE c

\* A YahooQuote; an optional name that is missing is the empty string (both
\* are falsy for ||).
YahooQuote(symbol, shortname, longname, quoteType) ==
  [symbol |-> symbol, shortname |-> shortname, longname |-> longname,
   quoteType |-> quoteType]

\* The decoded body of a search response: JSON null, an object without
\* `quotes`, or an object with a quotes array.
YahooNullBody == [isObject |-> FALSE, hasQuotes |-> FALSE, quotes |-> <<>>]
YahooNoQuotes == [isObject |-> TRUE, hasQuotes |-> FALSE, quotes |-> <<>>]
YahooBody(quotes) == [isObject |-> TRUE, hasQuotes |-> TRUE, quotes |-> quotes]

\* q.longname || q.shortname || q.symbol
ResultName(q) ==
  IF q.longname # "" THEN q.longname
  ELSE IF q.shortname # "" THEN q.shortname
  ELSE q.symbol

TickerSearchResult(q) == [symbol |-> q.symbol, name |-> ResultName(q)]

\* data.quotes.filter(EQUITY or ETF).map(...)
MapQuotes(quotes) ==
  LET kept == SelectSeq(quotes,
                LAMBDA q : q.quoteType = "EQUITY" \/ q.quoteType = "ETF")
  IN  [i \in 1..Len(kept) |-> TickerSearchResult(kept[i])]

\* The try block of searchTickers.
searchTickersTry(query, resp) ==
  IF resp.kind = "neterr" THEN Throw(<<>>)
  ELSE IF ~resp.ok THEN Throw(<<>>)
  ELSE IF ~resp.decodes THEN Throw(<<>>)
  ELSE IF ~resp.data.isObject \/ ~resp.data.hasQuotes THEN Throw(<<>>)
  ELSE Return(MapQuotes(resp.data.quotes))

\* searchTickers without its catch block.
searchTickersNoCatch(query, resp) ==
  IF query = "" THEN Return(<<>>) ELSE searchTickersTry(query, resp)

\* searchTickers: the empty query returns [] at once; try { ... } catch
\* { return [] }
searchTickers(query, resp) ==
  IF query = "" THEN Return(<<>>)
  ELSE LET c == searchTickersTry(query, resp)
       IN  IF c.threw THEN Return(<<>>) ELSE c

\* ------------------------------------------------------------------- state

VARIABLES
  stored,      \* the LocalStorage value under RECENTS_KEY
  now,         \* the clock Date.now() reads; it advances by one after each
               \* reading (no property below needs two readings to differ)
  pc,          \* pc[p]: where operation p stands
  op,          \* op[p]: what operation p is, and its arguments
  result,      \* result[p]: what the lookup's getZacksData call returned
  local,       \* local[p]: the list operation p parsed from its storage read,
               \* while p runs
  pending,     \* pending[p]: quote fetches a view run still waits for
  calls,       \* calls[p]: addToRecents invocations of operation p
  writes,      \* writes[p]: storage writes (setItem, removeItem) of operation p
  revalidate,  \* revalidate() was called and the view has not re-read yet
  last,        \* the latest storage write: who, over which stored value, from
               \* which list read, at what time
  searchText,    \* SearchZacksRank: the search text state
  lastCallId,    \* the number of search requests issued so far
  inflight,      \* the search requests not yet resolved: [id, query]
  searchResults, \* the `data` the search view renders
  shownFor,      \* the query whose response searchResults is
  isLoading,     \* the hook's isLoading
  edits,         \* the number of search text changes so far
  lastResolved,  \* the search request that resolved last
  netFn,       \* SpecNet: the client called ("search" or "quote")
  netArg,      \* its argument
  netResp,     \* what the HTTP request of the call comes to
  netOut,      \* the call's completion, once it has completed
  tasks,       \* SpecView: tasks[i] is the i-th promise of recents.map(...)
  order,       \* the indices of the settled tasks, in the order they settled
  viewData     \* what the view's useCachedPromise function came to

storeVars ==
  <<stored, now, pc, op, result, local, pending, calls, writes, revalidate, last>>
searchVars ==
  <<searchText, lastCallId, inflight, searchResults, shownFor, isLoading, edits,
    lastResolved>>
netVars == <<netFn, netArg, netResp, netOut>>

viewVars == <<tasks, order, viewData>>

vars == <<storeVars, searchVars, netVars, viewVars>>

\* The search view and the client calls of SpecNet, not in use.
SearchUnused ==
  /\ searchText = "" /\ lastCallId = 0 /\ inflight = {}
  /\ searchResults = <<>> /\ shownFor = "" /\ isLoading = FALSE /\ edits = 0
  /\ lastResolved = [id |-> 0, query |-> ""]
NetUnused ==
  /\ netFn = "none" /\ netArg = ""
  /\ netResp = HttpResponse("neterr", FALSE, FALSE, ZacksNullBody)
  /\ netOut = [done |-> FALSE, threw |-> FALSE]

\* The state of the view's function: still running, returned `data`, or
\* rejected.
Running == [state |-> "running", data |-> <<>>]
Resolved(data) == [state |-> "resolved", data |-> data]
Rejected == [state |-> "rejected", data |-> <<>>]

ViewUnused ==
  /\ tasks = <<>> /\ order = <<>> /\ viewData = Running

NoOp == [kind |-> "none", ticker |-> "", name |-> ""]
NoWrite == [proc |-> 0, before |-> Absent, base |-> <<>>, ts |-> 0]

\* A valid stored list of k entries, most recent first.
InitList(k) ==
  [i \in 1..k |-> RecentTicker(Sym(i), "Co", MAX_RECENTS - i)]

\* The lengths of the lists a behaviour may start from.
InitLens == {1, MAX_RECENTS}

InitStored ==
  {Absent, Garbage} \cup {JSONstringify(InitList(k)) : k \in InitLens}

\* The symbols operations are invoked with: one that the non-empty initial
\* lists hold and one that no initial list holds.
OpSymbols == {Sym(1), Sym(MAX_RECENTS + 1)}

\* The `ticker` argument QuickLookup is launched with, as the user typed it.
QuickArgs == {Padded(1), Sym(MAX_RECENTS + 1)}

\* The `name` prop of StockDetail (the search result's name).
DetailNames == {"Co"}

\* What the quote endpoint may answer to a request for `ticker`.
ZacksResponses(ticker) ==
  LET key == toUpperCase(ticker)
  IN  { HttpResponse("neterr", FALSE, FALSE, ZacksNullBody),
        HttpResponse("http", FALSE, TRUE, ZacksBody(<<>>)),
        HttpResponse("http", TRUE, FALSE, ZacksNullBody),
        HttpResponse("http", TRUE, TRUE, ZacksNullBody),
        HttpResponse("http", TRUE, TRUE, ZacksBody(<<>>)),
        HttpResponse("http", TRUE, TRUE, ZacksBody([k \in {key} |-> NullQuote])),
        HttpResponse("http", TRUE, TRUE, ZacksBody([k \in {key} |-> Quote(key, "")])),
        HttpResponse("http", TRUE, TRUE, ZacksBody([k \in {key} |-> Quote(key, "Inc")])) }

StoreInit(procs) ==
  /\ now = MAX_RECENTS
  /\ pc = [p \in procs |-> "idle"]
  /\ op = [p \in procs |-> NoOp]
  /\ result = [p \in procs |-> NullQuote]
  /\ local = [p \in procs |-> <<>>]
  /\ pending = [p \in procs |-> 0]
  /\ calls = [p \in procs |-> 0]
  /\ writes = [p \in procs |-> 0]
  /\ revalidate = FALSE
  /\ last = NoWrite

Init ==
  /\ stored \in InitStored
  /\ StoreInit(1..NProcs)
  /\ SearchUnused
  /\ NetUnused
  /\ ViewUnused

\* Operation p is the p-th one invoked.
Idle(p) == pc[p] = "idle" /\ (IF p = 1 THEN TRUE ELSE pc[p - 1] # "idle")

\* ----------------------------------------------------------------- lookups

\* StockDetail mounts: its useCachedPromise function is called with the
\* ticker and requests the quote.
StartStockDetail(p, ticker, name) ==
  /\ Idle(p)
  /\ pc' = [pc EXCEPT ![p] = "fetch"]
  /\ op' = [op EXCEPT ![p] = [kind |-> "detail", ticker |-> ticker, name |-> name]]
  /\ UNCHANGED <<stored, now, result, local, pending, calls, writes, revalidate, last>>

\* QuickLookup is launched: the argument is upper-cased and trimmed, and the
\* quote requested.
StartQuickLookup(p, arg) ==
  /\ Idle(p)
  /\ pc' = [pc EXCEPT ![p] = "fetch"]
  /\ op' = [op EXCEPT ![p] =
              [kind |-> "quick", ticker |-> trim(toUpperCase(arg)), name |-> ""]]
  /\ UNCHANGED <<stored, now, result, local, pending, calls, writes, revalidate, last>>

\* The lookup without its `if (result)` test.
LookupTargetUnguarded(c) == IF c.threw THEN "failed" ELSE "up_read"

\* `await getZacksData(symbol)` resumes: with a record the lookup calls
\* addToRecents (which issues its storage read), without one it returns.
LookupTarget(c) ==
  IF c.threw THEN "failed"
  ELSE IF ~c.value.isNull THEN "up_read"
  ELSE "done"

FetchDone(p, resp) ==
  /\ pc[p] = "fetch"
  /\ LET c == getZacksData(op[p].ticker, resp)
         target == LookupTarget(c)
     IN  /\ result' = [result EXCEPT ![p] = c.value]
         /\ pc' = [pc EXCEPT ![p] = target]
         /\ calls' = [calls EXCEPT ![p] = IF target = "up_read" THEN @ + 1 ELSE @]
  /\ UNCHANGED <<stored, now, op, local, pending, writes, revalidate, last>>

\* The name a lookup passes to addToRecents: StockDetail its `name` prop,
\* QuickLookup `result.name || symbol`.
UpsertName(p) ==
  IF op[p].kind = "detail" THEN op[p].name
  ELSE IF result[p].name # "" THEN result[p].name
  ELSE op[p].ticker

\* addToRecents, first await: getItem yields the stored value, which is
\* parsed (a SyntaxError rejects the call).
UpsertRead(p) ==
  /\ pc[p] = "up_read"
  /\ LET r == ParseStored(stored)
     IN  /\ pc' = [pc EXCEPT ![p] = IF r.threw THEN "failed" ELSE "up_write"]
         /\ local' = [local EXCEPT ![p] = r.list]
  /\ UNCHANGED <<stored, now, op, result, pending, calls, writes, revalidate, last>>

\* An addToRecents that reads and writes in one step.
UpsertBaseAtomic(p) == ParseStored(stored).list

\* The list an addToRecents call computes its write from.
UpsertBase(p) == local[p]

\* addToRecents, the rest: filter, unshift with Date.now(), slice, setItem.
UpsertWrite(p) ==
  /\ pc[p] = "up_write"
  /\ stored' = JSONstringify(
                 addToRecentsList(UpsertBase(p), op[p].ticker, UpsertName(p), now))
  /\ now' = now + 1
  /\ pc' = [pc EXCEPT ![p] = "done"]
  /\ writes' = [writes EXCEPT ![p] = @ + 1]
  /\ last' = [proc |-> p, before |-> stored, base |-> local[p], ts |-> now]
  /\ local' = [local EXCEPT ![p] = <<>>]
  /\ UNCHANGED <<op, result, pending, calls, revalidate>>

\* ------------------------------------------------------------ RecentStocks

\* removeRecent(symbol), first await: getItem and parse.
RemoveRead(p, symbol) ==
  /\ Idle(p)
  /\ op' = [op EXCEPT ![p] = [kind |-> "remove", ticker |-> symbol, name |-> ""]]
  /\ LET r == ParseStored(stored)
     IN  /\ pc' = [pc EXCEPT ![p] = IF r.threw THEN "failed" ELSE "rm_write"]
         /\ local' = [local EXCEPT ![p] = r.list]
  /\ UNCHANGED <<stored, now, result, pending, calls, writes, revalidate, last>>

\* removeRecent, the rest: filter, setItem, toast, revalidate().
RemoveWrite(p) ==
  /\ pc[p] = "rm_write"
  /\ stored' = JSONstringify(removeRecentList(local[p], op[p].ticker))
  /\ pc' = [pc EXCEPT ![p] = "done"]
  /\ writes' = [writes EXCEPT ![p] = @ + 1]
  /\ revalidate' = TRUE
  /\ last' = [proc |-> p, before |-> stored, base |-> local[p], ts |-> now]
  /\ local' = [local EXCEPT ![p] = <<>>]
  /\ UNCHANGED <<now, op, result, pending, calls>>

\* clearRecents: removeItem, toast, revalidate().
ClearRecents(p) ==
  /\ Idle(p)
  /\ op' = [op EXCEPT ![p] = [kind |-> "clear", ticker |-> "", name |-> ""]]
  /\ stored' = Absent
  /\ pc' = [pc EXCEPT ![p] = "done"]
  /\ writes' = [writes EXCEPT ![p] = @ + 1]
  /\ revalidate' = TRUE
  /\ last' = [proc |-> p, before |-> stored, base |-> <<>>, ts |-> now]
  /\ UNCHANGED <<now, result, local, pending, calls>>

\* A run of the view's useCachedPromise function (on mount or after
\* revalidate()): getItem and parse; an empty list returns at once, otherwise
\* one quote request per entry is issued.
ViewTarget(r) ==
  IF r.threw THEN "failed"
  ELSE IF Len(r.list) = 0 THEN "done"
  ELSE "view_fetch"

ViewRead(p) ==
  /\ Idle(p)
  /\ op' = [op EXCEPT ![p] = [kind |-> "view", ticker |-> "", name |-> ""]]
  /\ LET r == ParseStored(stored)
     IN  /\ pc' = [pc EXCEPT ![p] = ViewTarget(r)]
         /\ local' = [local EXCEPT ![p] = r.list]
         /\ pending' = [pending EXCEPT ![p] = Len(r.list)]
  /\ revalidate' = FALSE
  /\ UNCHANGED <<stored, now, result, calls, writes, last>>

\* Promise.all resolves: every quote request of the run has completed (each
\* inside its own try/catch), whatever each came to.  The store is not
\* touched in between; SpecView follows the requests one by one.
ViewFetch(p, resps) ==
  /\ pc[p] = "view_fetch"
  /\ \A i \in 1..Len(local[p]) : ~getZacksData(local[p][i].symbol, resps[i]).threw
  /\ pending' = [pending EXCEPT ![p] = 0]
  /\ pc' = [pc EXCEPT ![p] = "done"]
  /\ local' = [local EXCEPT ![p] = <<>>]
  /\ UNCHANGED <<stored, now, op, result, calls, writes, revalidate, last>>

Procs == DOMAIN pc

StockDetailMounts ==
  /\ \E p \in Procs, t \in OpSymbols, n \in DetailNames : StartStockDetail(p, t, n)
  /\ UNCHANGED <<searchVars, netVars, viewVars>>
QuickLookupLaunched ==
  /\ \E p \in Procs, a \in QuickArgs : StartQuickLookup(p, a)
  /\ UNCHANGED <<searchVars, netVars, viewVars>>
LookupFetched ==
  /\ \E p \in Procs : \E r \in ZacksResponses(op[p].ticker) : FetchDone(p, r)
  /\ UNCHANGED <<searchVars, netVars, viewVars>>
UpsertReads ==
  /\ \E p \in Procs : UpsertRead(p)
  /\ UNCHANGED <<searchVars, netVars, viewVars>>
UpsertWrites ==
  /\ \E p \in Procs : UpsertWrite(p)
  /\ UNCHANGED <<searchVars, netVars, viewVars>>
RemoveReads ==
  /\ \E p \in Procs, s \in OpSymbols : RemoveRead(p, s)
  /\ UNCHANGED <<searchVars, netVars, viewVars>>
RemoveWrites ==
  /\ \E p \in Procs : RemoveWrite(p)
  /\ UNCHANGED <<searchVars, netVars, viewVars>>
Clears ==
  /\ \E p \in Procs : ClearRecents(p)
  /\ UNCHANGED <<searchVars, netVars, viewVars>>
ViewReads ==
  /\ \E p \in Procs : ViewRead(p)
  /\ UNCHANGED <<searchVars, netVars, viewVars>>
ViewFetched ==
  /\ \E p \in Procs :
       \E r \in ZacksResponses("") : ViewFetch(p, [i \in 1..Len(local[p]) |-> r])
  /\ UNCHANGED <<searchVars, netVars, viewVars>>

Next ==
  \/ StockDetailMounts
  \/ QuickLookupLaunched
  \/ LookupFetched
  \/ UpsertReads
  \/ UpsertWrites
  \/ RemoveReads
  \/ RemoveWrites
  \/ Clears
  \/ ViewReads
  \/ ViewFetched

Spec == Init /\ [][Next]_vars

\* ---------------------------------------------------- properties of the store

IsLookup(p) == op[p].kind \in {"detail", "quick"}
SymbolsOf(l) == [i \in 1..Len(l) |-> l[i].symbol]
Holds(l, symbol) == \E i \in 1..Len(l) : l[i].symbol = symbol
Without(l, symbol) == SelectSeq(l, LAMBDA r : r.symbol # symbol)
FirstN(l, n) == [i \in 1..(IF Len(l) < n THEN Len(l) ELSE n) |-> l[i]]

\* The latest write was made by p, and p read the value it wrote over: no
\* other write came between p's read and p's write.
WroteUninterleaved(p) ==
  /\ last.proc = p
  /\ last.before.kind # "garbage"
  /\ last.base = last.before.list

\* C1: the stored list never has more than MAX_RECENTS (10) entries, whatever
\* the interleaving of upserts, removals and clears.
C1_AtMostMaxRecents == Len(stored.list) <= 10

\* C1 witness: an upsert of a symbol the full list did not hold has written.
C1_Witness ==
  \E p \in Procs :
    /\ last.proc = p /\ IsLookup(p)
    /\ Len(last.before.list) = 10
    /\ ~Holds(last.before.list, op[p].ticker)
    /\ Len(last.base) = 10
    /\ Len(stored.list) = 10

\* C2: no two entries of the stored list have the same symbol.
C2_UniqueSymbols ==
  \A i, j \in 1..Len(stored.list) :
    stored.list[i].symbol = stored.list[j].symbol => i = j

\* C2 witness: an upsert of a symbol the list it read already held has
\* written, and other entries are stored beside it.
C2_Witness ==
  \E p \in Procs :
    /\ last.proc = p /\ IsLookup(p)
    /\ Holds(last.base, op[p].ticker)
    /\ Len(stored.list) > 1

\* C3: an upsert that ran without interleaving over the list L leaves the
\* first 10 entries of: the new entry (the call's symbol, name and
\* timestamp), then L without the call's symbol, in L's order.
C3_MoveToFront ==
  \A p \in Procs :
    (WroteUninterleaved(p) /\ IsLookup(p)) =>
      /\ stored.kind = "json"
      /\ stored.list =
           FirstN(<<[symbol |-> op[p].ticker, name |-> UpsertName(p),
                     timestamp |-> last.ts]>>
                  \o Without(last.before.list, op[p].ticker), 10)

\* C3 witness: upsert T11, then upsert T1 over the list that held T1 before
\* T11 arrived: the order is T1, T11, and T1 carries the second call's time.
C3_Witness ==
  /\ NProcs >= 2
  /\ IsLookup(1) /\ IsLookup(2)
  /\ pc[1] = "done" /\ pc[2] = "done"
  /\ op[1].ticker = Sym(MAX_RECENTS + 1) /\ op[2].ticker = Sym(1)
  /\ WroteUninterleaved(2)
  /\ SymbolsOf(stored.list) = <<Sym(1), Sym(MAX_RECENTS + 1)>>
  /\ stored.list[1].timestamp = last.ts
  /\ stored.list[2].timestamp < last.ts

\* C5: an unparseable stored value is treated as the empty list: no
\* operation fails on it, and an upsert over it stores a one-entry list.
C5_UnparseableIsEmpty ==
  /\ \A p \in Procs : pc[p] # "failed"
  /\ \A p \in Procs :
       (last.proc = p /\ last.before.kind = "garbage" /\ IsLookup(p)) =>
         Len(stored.list) = 1

\* C6: the stored value is the one of the last write call, computed from that
\* writer's own read and from nothing written since: last write wins.
C6_LastWriteWins ==
  \A p \in Procs :
    last.proc = p =>
      CASE IsLookup(p) ->
             /\ stored.kind = "json"
             /\ stored.list =
                  FirstN(<<[symbol |-> op[p].ticker, name |-> UpsertName(p),
                            timestamp |-> last.ts]>>
                         \o Without(last.base, op[p].ticker), 10)
        [] op[p].kind = "remove" ->
             /\ stored.kind = "json"
             /\ stored.list = Without(last.base, op[p].ticker)
        [] OTHER -> stored = Absent

\* C6 witness: two upserts of distinct symbols have both completed and the
\* stored list lacks the symbol of one of them.
C6_Witness ==
  \E p, q \in Procs :
    /\ IsLookup(p) /\ IsLookup(q)
    /\ pc[p] = "done" /\ pc[q] = "done"
    /\ writes[p] = 1 /\ writes[q] = 1
    /\ op[p].ticker # op[q].ticker
    /\ last.proc = q
    /\ ~Holds(stored.list, op[p].ticker)
    /\ Holds(stored.list, op[q].ticker)

\* C8: a lookup calls addToRecents exactly when its quote fetch returned a
\* record, once and with its own symbol; a lookup whose fetch returned
\* nothing and a run of the recents view never write to the store.
C8_UpsertIffRecord ==
  \A p \in Procs :
    /\ (IsLookup(p) /\ pc[p] # "fetch") =>
         /\ calls[p] = (IF result[p].isNull THEN 0 ELSE 1)
         /\ writes[p] <= calls[p]
         /\ pc[p] = "done" => writes[p] = calls[p]
         /\ last.proc = p => stored.list[1].symbol = op[p].ticker
    /\ (IsLookup(p) /\ pc[p] = "fetch") => (calls[p] = 0 /\ writes[p] = 0)
    /\ op[p].kind = "view" => (calls[p] = 0 /\ writes[p] = 0 /\ last.proc # p)
    /\ op[p].kind \in {"remove", "clear"} => calls[p] = 0

\* C8 witness: one lookup got a record and has upserted, another got nothing
\* and has returned.
C8_Witness ==
  \E p, q \in Procs :
    /\ IsLookup(p) /\ pc[p] = "done" /\ ~result[p].isNull /\ writes[p] = 1
    /\ IsLookup(q) /\ pc[q] = "done" /\ result[q].isNull /\ writes[q] = 0

\* C10: a removal that ran without interleaving over a list with no entry
\* for its symbol leaves a stored list equal to the one before (the write
\* happens, also over an absent value).
C10_RemoveAbsentIsNoOp ==
  \A p \in Procs :
    (WroteUninterleaved(p) /\ op[p].kind = "remove"
       /\ ~Holds(last.before.list, op[p].ticker)) =>
      /\ stored.kind = "json"
      /\ stored.list = last.before.list

\* C10 witness: such a removal has written over a non-empty list.
C10_Witness ==
  \E p \in Procs :
    /\ WroteUninterleaved(p) /\ op[p].kind = "remove"
    /\ ~Holds(last.before.list, op[p].ticker)
    /\ Len(last.before.list) > 0
    /\ pc[p] = "done"

\* ------------------------------------------------------ sequential lookups

\* SpecSeq: MaxSeq StockDetail lookups of pairwise distinct symbols, the p-th
\* of symbol Tp, each run to completion before the next is started, from an
\* empty store.  A lookup upserts or not, as its quote fetch decides.
SeqResponses(ticker) ==
  { HttpResponse("neterr", FALSE, FALSE, ZacksNullBody),
    HttpResponse("http", TRUE, TRUE,
                 ZacksBody([k \in {toUpperCase(ticker)} |->
                              Quote(toUpperCase(ticker), "Inc")])) }

InitSeq ==
  /\ stored \in {Absent, JSONstringify(<<>>)}
  /\ StoreInit(1..MaxSeq)
  /\ SearchUnused
  /\ NetUnused
  /\ ViewUnused

Finished(p) == pc[p] \in {"done", "failed"}
Sequential(p) == IF p = 1 THEN TRUE ELSE Finished(p - 1)

SeqLookupStarts ==
  /\ \E p \in Procs : Sequential(p) /\ StartStockDetail(p, Sym(p), "Co")
  /\ UNCHANGED <<searchVars, netVars, viewVars>>
SeqLookupFetched ==
  /\ \E p \in Procs : \E r \in SeqResponses(op[p].ticker) : FetchDone(p, r)
  /\ UNCHANGED <<searchVars, netVars, viewVars>>
SeqUpsertReads ==
  /\ \E p \in Procs : UpsertRead(p)
  /\ UNCHANGED <<searchVars, netVars, viewVars>>
SeqUpsertWrites ==
  /\ \E p \in Procs : UpsertWrite(p)
  /\ UNCHANGED <<searchVars, netVars, viewVars>>

NextSeq ==
  \/ SeqLookupStarts
  \/ SeqLookupFetched
  \/ SeqUpsertReads
  \/ SeqUpsertWrites

SpecSeq == InitSeq /\ [][NextSeq]_vars

\* The operations that have upserted, in the order they ran.
Upserters == SelectSeq([p \in 1..Cardinality(Procs) |-> p], LAMBDA p : writes[p] = 1)
Min(a, b) == IF a < b THEN a ELSE b

\* C4: after k sequential upserts of pairwise distinct symbols from an empty
\* list, the stored list holds the last min(k, 10) upserted symbols, most
\* recent first; so from the 11th upsert on it has exactly 10 entries and
\* lacks the first upserted symbol.
C4_EvictsLeastRecent ==
  LET u == Upserters
      k == Len(u)
  IN  /\ SymbolsOf(stored.list) = [i \in 1..Min(k, 10) |-> op[u[k - i + 1]].ticker]
      /\ k > 10 => /\ Len(stored.list) = 10
                   /\ ~Holds(stored.list, op[u[1]].ticker)

\* C4 witness: exactly 11 upserts have completed.
C4_Witness ==
  /\ Len(Upserters) = 11
  /\ \A p \in Procs : pc[p] \in {"idle", "done"}
  /\ Len(stored.list) = 10
  /\ stored.list[1].symbol = op[Upserters[11]].ticker
  /\ stored.list[10].symbol = op[Upserters[2]].ticker

\* ------------------------------------------------- the clients on their own

\* SpecNet: one call of searchTickers or getZacksData, for each argument and
\* each thing its HTTP request may come to.
QuoteShapes ==
  { YahooQuote(Sym(1), sn, ln, ty) :
      sn \in {"", "Short"}, ln \in {"", "Long"}, ty \in {"EQUITY", "ETF", "OPTION"} }

QuoteLists == UNION { [1..n -> QuoteShapes] : n \in 0..MaxQuotes }

YahooFailures ==
  { HttpResponse("neterr", FALSE, FALSE, YahooNullBody),
    HttpResponse("http", FALSE, TRUE, YahooBody(<<>>)),
    HttpResponse("http", TRUE, FALSE, YahooNullBody),
    HttpResponse("http", TRUE, TRUE, YahooNullBody),
    HttpResponse("http", TRUE, TRUE, YahooNoQuotes) }

NetQueries == {"", "apple"}
NetTickers == {Sym(1), Lower(1), Sym(2)}

InitNet ==
  /\ stored = Absent
  /\ StoreInit({})
  /\ SearchUnused
  /\ ViewUnused
  /\ netOut = [done |-> FALSE, threw |-> FALSE]
  /\ \/ /\ netFn = "search"
        /\ netArg \in NetQueries
        /\ netResp \in YahooFailures
                         \cup {HttpResponse("http", TRUE, TRUE, YahooBody(l)) : l \in QuoteLists}
     \/ /\ netFn = "quote"
        /\ netArg \in NetTickers
        /\ netResp \in ZacksResponses(Sym(1))

\* The call completes: what the caller's await sees.
SearchTickersCompletes ==
  /\ netFn = "search" /\ ~netOut.done
  /\ LET c == searchTickers(netArg, netResp)
     IN  netOut' = [done |-> TRUE, threw |-> c.threw, results |-> c.value]
  /\ UNCHANGED <<storeVars, searchVars, viewVars, netFn, netArg, netResp>>

GetZacksDataCompletes ==
  /\ netFn = "quote" /\ ~netOut.done
  /\ LET c == getZacksData(netArg, netResp)
     IN  netOut' = [done |-> TRUE, threw |-> c.threw, quote |-> c.value]
  /\ UNCHANGED <<storeVars, searchVars, viewVars, netFn, netArg, netResp>>

NextNet ==
  \/ SearchTickersCompletes
  \/ GetZacksDataCompletes

SpecNet == InitNet /\ [][NextNet]_vars

\* The request did not come to a body of the expected shape: a transport
\* error, a status outside 2xx, an undecodable body, or a decoded body that
\* is not the expected object.
RequestFailed ==
  \/ netResp.kind = "neterr"
  \/ ~netResp.ok
  \/ ~netResp.decodes
  \/ ~netResp.data.isObject
  \/ (netFn = "search" /\ ~netResp.data.hasQuotes)

\* C9: whatever the HTTP request comes to, searchTickers completes with a
\* sequence and getZacksData with a record or null, and neither throws; when
\* the request failed the sequence is empty and the quote is null.
C9_FailSoft ==
  netOut.done =>
    /\ ~netOut.threw
    /\ netFn = "search" =>
         /\ DOMAIN netOut.results = 1..Len(netOut.results)
         /\ RequestFailed => netOut.results = <<>>
         /\ Len(netOut.results) > 0 => (netArg # "" /\ ~RequestFailed)
    /\ netFn = "quote" =>
         /\ RequestFailed => netOut.quote.isNull
         /\ ~netOut.quote.isNull =>
              (~RequestFailed /\ netOut.quote.ticker = Sym(1) /\ netArg # Sym(2))

\* C9 witness: a search whose request got a status outside 2xx has completed
\* with the empty sequence.
C9_Witness ==
  /\ netOut.done /\ netFn = "search" /\ netArg # ""
  /\ netResp.kind = "http" /\ ~netResp.ok
  /\ netOut.results = <<>>

\* ------------------------------------------------------------ search view

\* SpecSearch: SearchZacksRank.  useCachedPromise calls the search function
\* again whenever searchText changes; the calls resolve in any order.
SearchQueries == {"", Lower(1), Lower(2)}

\* What the search endpoint may answer to `query`.
YahooResponses(query) ==
  YahooFailures \cup
    { HttpResponse("http", TRUE, TRUE, YahooBody(<<>>)),
      HttpResponse("http", TRUE, TRUE,
        YahooBody(<<YahooQuote(toUpperCase(query), "", "Long", "EQUITY")>>)),
      HttpResponse("http", TRUE, TRUE,
        YahooBody(<<YahooQuote(toUpperCase(query), "", "", "ETF"),
                    YahooQuote(toUpperCase(query), "Short", "", "OPTION")>>)) }

\* The hook takes every resolution, whichever request it belongs to.
AcceptsAny(r) == TRUE

\* The hook's guard: a resolution is taken only if the request it belongs to
\* was issued for the current input.
Accepts(r) == r.query = searchText

\* The hook issues the call for the current arguments.
Issue(query) ==
  /\ lastCallId' = lastCallId + 1
  /\ inflight' = inflight \cup {[id |-> lastCallId + 1, query |-> query]}
  /\ isLoading' = TRUE

InitSearch ==
  /\ stored = Absent
  /\ StoreInit({})
  /\ NetUnused
  /\ ViewUnused
  /\ searchText = ""
  /\ lastCallId = 1
  /\ inflight = {[id |-> 1, query |-> ""]}
  /\ searchResults = <<>>
  /\ shownFor = ""
  /\ isLoading = TRUE
  /\ edits = 0
  /\ lastResolved = [id |-> 0, query |-> ""]

\* onSearchTextChange={setSearchText}: the state changes and the hook, whose
\* arguments are [searchText], calls the search function with the new text.
SetSearchText(text) ==
  /\ edits < MaxEdits
  /\ text # searchText
  /\ searchText' = text
  /\ edits' = edits + 1
  /\ Issue(text)
  /\ UNCHANGED <<searchResults, shownFor, lastResolved>>

\* A call of the search function resolves: `if (!query) return []; return
\* searchTickers(query)`.  The hook renders its value or drops it.
SearchResolves(r, resp) ==
  /\ r \in inflight
  /\ inflight' = inflight \ {r}
  /\ lastResolved' = r
  /\ LET c == searchTickers(r.query, resp)
     IN  IF Accepts(r) /\ ~c.threw
         THEN /\ searchResults' = c.value
              /\ shownFor' = r.query
              /\ isLoading' = FALSE
         ELSE UNCHANGED <<searchResults, shownFor, isLoading>>
  /\ UNCHANGED <<searchText, lastCallId, edits>>

SearchTextChanges ==
  /\ \E text \in SearchQueries : SetSearchText(text)
  /\ UNCHANGED <<storeVars, netVars, viewVars>>
SearchResolved ==
  /\ \E r \in inflight : \E resp \in YahooResponses(r.query) : SearchResolves(r, resp)
  /\ UNCHANGED <<storeVars, netVars, viewVars>>

NextSearch ==
  \/ SearchTextChanges
  \/ SearchResolved

SpecSearch == InitSearch /\ [][NextSearch]_vars

\* C7: the results on display are those of a response to the current search
\* text, unless a request for the current text is still unresolved (until it
\* resolves, the previous results stay): a response to a query that is no
\* longer the current text never replaces them, so once every request has
\* resolved the display shows the latest query's results.
C7_LatestRequestWins ==
  /\ shownFor # searchText => \E r \in inflight : r.query = searchText
  /\ \A i \in 1..Len(searchResults) : searchResults[i].symbol = toUpperCase(shownFor)
  /\ inflight = {} => (shownFor = searchText /\ ~isLoading)

\* C7 witness: the response to the latest query was displayed, an older
\* request for another query resolved after it, and the display still shows
\* the latest query's results.
C7_Witness ==
  /\ inflight = {}
  /\ lastResolved.id # 0
  /\ lastResolved.id < lastCallId
  /\ lastResolved.query \notin {"", searchText}
  /\ shownFor = searchText
  /\ Len(searchResults) = 1


\* ------------------------------------------------- the view's enrichment

\* SpecView: one run of the RecentStocks reader, with each quote request of
\* its Promise.all settling on its own, in any order, with any answer.

\* { ...recent, zacksData }
RecentWithData(recent, zacksData) ==
  [symbol |-> recent.symbol, name |-> recent.name,
   timestamp |-> recent.timestamp, zacksData |-> zacksData]

\* A promise of recents.map(...): pending, or settled with the completion of
\* its function; resp is what its HTTP request came to.
PendingTask ==
  [settled |-> FALSE,
   resp |-> HttpResponse("neterr", FALSE, FALSE, ZacksNullBody),
   threw |-> FALSE,
   value |-> RecentWithData(RecentTicker("", "", 0), NullQuote)]
SettledTask(resp, c) ==
  [settled |-> TRUE, resp |-> resp, threw |-> c.threw, value |-> c.value]

\* The function mapped over recents: try { zacksData = await
\* getZacksData(recent.symbol); return { ...recent, zacksData } } catch
\* { return { ...recent, zacksData: null } }
EnrichTask(recent, resp) ==
  LET c == getZacksData(recent.symbol, resp)
  IN  IF c.threw THEN Return(RecentWithData(recent, NullQuote))
      ELSE Return(RecentWithData(recent, c.value))

\* A Promise.all whose array is in the order the promises settled.
PromiseAllBySettlement(ts, ord) == [k \in 1..Len(ord) |-> ts[ord[k]].value]

\* The array Promise.all fulfils with, once every promise has: the promises'
\* values in the order of the promises.
PromiseAll(ts, ord) == [i \in 1..Len(ts) |-> ts[i].value]

InitView ==
  /\ stored \in {Absent, Garbage} \cup {JSONstringify(InitList(k)) : k \in 0..MaxView}
  /\ StoreInit({1})
  /\ SearchUnused
  /\ NetUnused
  /\ ViewUnused

\* The view mounts and its function runs up to its first pending await: the
\* storage read, the parse, `return []` for the empty list, else one task per
\* entry and the await of Promise.all.
ViewStart(p) ==
  /\ ViewRead(p)
  /\ LET r == ParseStored(stored)
     IN  /\ tasks' = [i \in 1..Len(r.list) |-> PendingTask]
         /\ viewData' = IF r.threw THEN Rejected
                        ELSE IF Len(r.list) = 0 THEN Resolved(<<>>)
                        ELSE Running
  /\ order' = <<>>

\* The quote request of task i comes to resp and the task settles.  A task
\* that rejects rejects Promise.all, and with it the view's function, at once.
TaskSettles(p, i, resp) ==
  /\ pc[p] = "view_fetch"
  /\ i \in DOMAIN tasks
  /\ ~tasks[i].settled
  /\ LET c == EnrichTask(local[p][i], resp)
     IN  /\ tasks' = [tasks EXCEPT ![i] = SettledTask(resp, c)]
         /\ viewData' = IF c.threw /\ viewData.state = "running" THEN Rejected
                        ELSE viewData
  /\ order' = Append(order, i)
  /\ pending' = [pending EXCEPT ![p] = @ - 1]
  /\ UNCHANGED <<stored, now, pc, op, result, local, calls, writes, revalidate, last>>

\* Every task has settled: `await Promise.all(...)` resumes and the function
\* returns recentsWithData (unless a task rejected it before).
ViewJoin(p) ==
  /\ pc[p] = "view_fetch"
  /\ pending[p] = 0
  /\ viewData' = IF viewData.state = "running"
                 THEN Resolved(PromiseAll(tasks, order))
                 ELSE viewData
  /\ pc' = [pc EXCEPT ![p] = IF viewData.state = "running" THEN "done" ELSE "failed"]
  /\ local' = [local EXCEPT ![p] = <<>>]
  /\ UNCHANGED <<stored, now, op, result, pending, calls, writes, revalidate, last,
                 tasks, order>>

ViewStarts ==
  /\ \E p \in Procs : ViewStart(p)
  /\ UNCHANGED <<searchVars, netVars>>
TaskSettled ==
  /\ \E p \in Procs : \E i \in DOMAIN local[p] :
       \E resp \in ZacksResponses(local[p][i].symbol) : TaskSettles(p, i, resp)
  /\ UNCHANGED <<searchVars, netVars>>
ViewJoins ==
  /\ \E p \in Procs : ViewJoin(p)
  /\ UNCHANGED <<searchVars, netVars>>

NextView ==
  \/ ViewStarts
  \/ TaskSettled
  \/ ViewJoins

SpecView == InitView /\ [][NextView]_vars

\* The quote request brought no record for `symbol`: a transport error, a
\* status outside 2xx, an undecodable body, or a body without a record under
\* the symbol.
NoRecord(resp, symbol) ==
  \/ resp.kind = "neterr"
  \/ ~resp.ok
  \/ ~resp.decodes
  \/ ~resp.data.isObject
  \/ symbol \notin DOMAIN resp.data.entries
  \/ resp.data.entries[symbol].isNull

\* C11: whatever each quote request of the view comes to and in whatever
\* order the requests complete, no task rejects and the view's function is
\* rejected only by an unparseable stored value; the array it returns has one
\* entry per stored recent, in stored order, entry i being stored entry i
\* with null quote data if its request brought no record and with the record
\* its request brought otherwise.
C11_BatchSurvivesEveryTicker ==
  /\ \A i \in DOMAIN tasks : ~tasks[i].threw
  /\ viewData.state = "rejected" => stored.kind = "garbage"
  /\ viewData.state = "resolved" =>
       LET l == stored.list
           d == viewData.data
       IN  /\ DOMAIN d = 1..Len(l)
           /\ \A i \in 1..Len(l) :
                /\ d[i].symbol = l[i].symbol
                /\ d[i].name = l[i].name
                /\ d[i].timestamp = l[i].timestamp
                /\ tasks[i].settled
                /\ d[i].zacksData =
                     IF NoRecord(tasks[i].resp, l[i].symbol) THEN NullQuote
                     ELSE tasks[i].resp.data.entries[l[i].symbol]

\* C11 witness: a run over three stored recents has returned; the request of
\* the last stored entry completed first, one request met a transport error
\* and its entry carries null, another brought a record and its entry
\* carries it.
C11_Witness ==
  /\ viewData.state = "resolved"
  /\ Len(viewData.data) = 3
  /\ Len(order) = 3
  /\ order[1] = 3
  /\ \E i, j \in 1..3 :
       /\ tasks[i].resp.kind = "neterr"
       /\ viewData.data[i].zacksData.isNull
       /\ ~viewData.data[j].zacksData.isNull
       /\ viewData.data[j].zacksData.ticker = stored.list[j].symbol

=============================================================================
